---------------------------- MODULE Spec2Model ----------------------------
(***************************************************************************)
(* Model of wordle_bot.py: the entropy-driven solver (class wordle_bot)    *)
(* and the self-play game engine (class wordle_engine).                    *)
(*                                                                         *)
(* A word is a sequence of one-character strings, a feedback sequence is a *)
(* sequence over {0, 1, 2} (0 grey, 1 yellow, 2 green).  The empty string  *)
(* is the blank that both feedback algorithms write over a consumed        *)
(* letter.                                                                 *)
(***************************************************************************)
EXTENDS Integers, Sequences, FiniteSets, TLC

VARIABLES
    all_words,            \* wordle_bot.all_words
    remaining_words,      \* wordle_bot.remaining_words
    sequence_dictionary,  \* wordle_bot.sequence_dictionary (inner dicts are defaultdict(set))
    first_guess,          \* wordle_bot.first_guess
    wordle_bot,           \* wordle_engine.wordle_bot: "bot" or "None"
    allowed_word_list,    \* wordle_engine.allowed_word_list
    correct_word,         \* wordle_engine.correct_word
    num_guesses,          \* wordle_engine.num_guesses
    game_over,            \* wordle_engine.game_over
    board,                \* wordle_engine.board, one row per accepted guess
    guess,                \* local 'guess' of simulate / interactive
    result,               \* local 'result' of simulate / interactive
    sequence,             \* value returned by compute_sequence
    i,                    \* loop index of interactive
    emitted,              \* history: the words wordle_bot.guess has returned in this run
    exception,            \* the exception that ended the run, "" if none
    pc                    \* position of the running method

vars == <<all_words, remaining_words, sequence_dictionary, first_guess,
          wordle_bot, allowed_word_list, correct_word, num_guesses,
          game_over, board, guess, result, sequence, i, emitted,
          exception, pc>>

botVars == <<all_words, remaining_words, sequence_dictionary, first_guess>>
engineVars == <<wordle_bot, allowed_word_list, correct_word, num_guesses,
                game_over, board>>

-----------------------------------------------------------------------------
(* Program constants *)

word_length == 5

guess_budget == 7

interactive_rounds == 6

opening_guess == <<"c", "r", "a", "n", "e">>

BLANK == ""

NoWord == <<>>

Positions == 1..word_length

Patterns == [Positions -> {0, 1, 2}]

AllExact == [idx \in Positions |-> 2]

-----------------------------------------------------------------------------
(* Bounds of the model *)

NumLetters == 3

PoolSize == 9

BotPoolSize == 4

LetterSeq == <<"a", "b", "c", "d", "e">>

Letters == {LetterSeq[n] : n \in 1..NumLetters}

LetterWords == [Positions -> Letters]

PoolSeq ==
    << <<"c", "r", "a", "n", "e">>,
       <<"l", "i", "g", "h", "t">>,
       <<"m", "i", "g", "h", "t">>,
       <<"s", "i", "g", "h", "t">>,
       <<"t", "i", "g", "h", "t">>,
       <<"f", "i", "g", "h", "t">>,
       <<"b", "i", "g", "h", "t">>,
       <<"w", "i", "g", "h", "t">>,
       <<"t", "r", "a", "i", "n">>,
       <<"c", "r", "o", "n", "e">>,
       <<"e", "e", "r", "i", "e">> >>

Prefix(k) == {PoolSeq[n] : n \in 1..k}

Pool == Prefix(PoolSize)

-----------------------------------------------------------------------------
(* wordle_bot.compute_sequence *)

Range(s) == {s[n] : n \in DOMAIN s}

RECURSIVE FirstIndex(_, _, _)
FirstIndex(copy, letter, idx2) ==
    IF idx2 > Len(copy) THEN 0
    ELSE IF letter = copy[idx2] THEN idx2
    ELSE FirstIndex(copy, letter, idx2 + 1)

\* first loop: state is <<sequence, actual_copy>>
RECURSIVE ExactLoop(_, _, _)
ExactLoop(g, st, idx) ==
    IF idx > word_length THEN st
    ELSE IF st[2][idx] = g[idx]
         THEN ExactLoop(g, << [st[1] EXCEPT ![idx] = 2],
                              [st[2] EXCEPT ![idx] = BLANK] >>, idx + 1)
         ELSE ExactLoop(g, st, idx + 1)

\* the second loop without the inner loop that consumes the matched letter
RECURSIVE PresentLoopNoConsume(_, _, _)
PresentLoopNoConsume(g, st, idx) ==
    IF idx > word_length THEN st
    ELSE IF g[idx] \in Range(st[2]) /\ st[1][idx] # 2
         THEN PresentLoopNoConsume(g, << [st[1] EXCEPT ![idx] = 1], st[2] >>, idx + 1)
         ELSE PresentLoopNoConsume(g, st, idx + 1)

\* second loop
RECURSIVE PresentLoop(_, _, _)
PresentLoop(g, st, idx) ==
    IF idx > word_length THEN st
    ELSE IF g[idx] \in Range(st[2]) /\ st[1][idx] # 2
         THEN PresentLoop(g, << [st[1] EXCEPT ![idx] = 1],
                                [st[2] EXCEPT ![FirstIndex(st[2], g[idx], 1)] = BLANK] >>,
                          idx + 1)
         ELSE PresentLoop(g, st, idx + 1)

compute_sequence(g, actual) ==
    PresentLoop(g, ExactLoop(g, << [idx \in Positions |-> 0], actual >>, 1), 1)[1]

-----------------------------------------------------------------------------
(* wordle_engine.update_board: its own copy of the feedback algorithm, the  *)
(* rendered row, and the game_over test                                     *)

RECURSIVE BoardExactLoop(_, _, _)
BoardExactLoop(g, st, idx) ==
    IF idx > Len(g) THEN st
    ELSE IF st[2][idx] = g[idx]
         THEN BoardExactLoop(g, << [st[1] EXCEPT ![idx] = 2],
                                   [st[2] EXCEPT ![idx] = BLANK] >>, idx + 1)
         ELSE BoardExactLoop(g, st, idx + 1)

\* the second loop of update_board without the break: every occurrence of the
\* letter is consumed
RECURSIVE BoardPresentLoopNoBreak(_, _, _)
BoardPresentLoopNoBreak(g, st, idx) ==
    IF idx > Len(g) THEN st
    ELSE IF g[idx] \in Range(st[2]) /\ st[1][idx] # 2
         THEN BoardPresentLoopNoBreak(g,
                  << [st[1] EXCEPT ![idx] = 1],
                     [idx2 \in DOMAIN st[2] |->
                         IF st[2][idx2] = g[idx] THEN BLANK ELSE st[2][idx2]] >>,
                  idx + 1)
         ELSE BoardPresentLoopNoBreak(g, st, idx + 1)

RECURSIVE BoardPresentLoop(_, _, _)
BoardPresentLoop(g, st, idx) ==
    IF idx > Len(g) THEN st
    ELSE IF g[idx] \in Range(st[2]) /\ st[1][idx] # 2
         THEN BoardPresentLoop(g, << [st[1] EXCEPT ![idx] = 1],
                                     [st[2] EXCEPT ![FirstIndex(st[2], g[idx], 1)] = BLANK] >>,
                               idx + 1)
         ELSE BoardPresentLoop(g, st, idx + 1)

update_board_result(g, target) ==
    BoardPresentLoop(g, BoardExactLoop(g, << [idx \in 1..5 |-> 0], target >>, 1), 1)[1]

\* one rendered line of the board: each letter with its colour
board_row(g, res) ==
    [idx \in DOMAIN res |->
        IF res[idx] = 2 THEN <<g[idx], "green">>
        ELSE IF res[idx] = 1 THEN <<g[idx], "yellow">>
        ELSE <<g[idx], "plain">>]

update_board_game_over(g, target, over) == IF g = target THEN TRUE ELSE over

-----------------------------------------------------------------------------
(* wordle_bot: sequence dictionary, entropies, narrowing, guess *)

\* An inner defaultdict(set) is kept in three parts that together are the dict:
\*   filled  the entries generate_sequence_dictionary added words to
\*   read    the other keys that one read has stored with the empty set
\*   swept   TRUE when every sequence has been read (compute_entropies reads
\*           all of itertools.product([0,1,2], repeat=5)); read is then {}
Keys(inner) ==
    DOMAIN inner.filled \cup inner.read \cup (IF inner.swept THEN Patterns ELSE {})

\* inner[seq]: reading a missing key yields the empty set ...
Lookup(inner, seq) == IF seq \in DOMAIN inner.filled THEN inner.filled[seq] ELSE {}

\* ... and stores it under that key
Touched(inner, seq) ==
    IF seq \in DOMAIN inner.filled \/ inner.swept THEN inner
    ELSE [inner EXCEPT !.read = @ \cup {seq}]

Swept(inner) == [inner EXCEPT !.read = {}, !.swept = TRUE]

\* generate_sequence_dictionary with the arguments of compute_sequence swapped
generate_sequence_dictionary_swapped(words) ==
    [word1 \in words |->
        [filled |-> [seq \in {compute_sequence(word2, word1) : word2 \in words} |->
                        {word2 \in words : compute_sequence(word2, word1) = seq}],
         read   |-> {},
         swept  |-> FALSE]]

generate_sequence_dictionary(words) ==
    [word1 \in words |->
        [filled |-> [seq \in {compute_sequence(word1, word2) : word2 \in words} |->
                        {word2 \in words : compute_sequence(word1, word2) = seq}],
         read   |-> {},
         swept  |-> FALSE]]

\* compute_entropies intersecting in place (matches &= remaining_words): the
\* narrowed set is what the dictionary then holds
compute_entropies_dictionary_in_place(dict, remaining) ==
    [word \in DOMAIN dict |->
        IF word \in remaining
        THEN [filled |-> [seq \in DOMAIN dict[word].filled |->
                             dict[word].filled[seq] \cap remaining],
              read   |-> {},
              swept  |-> TRUE]
        ELSE dict[word]]

\* the dictionary after compute_entropies: every sequence of every remaining
\* word has been read once
compute_entropies_dictionary(dict, remaining) ==
    [word \in DOMAIN dict |->
        IF word \in remaining THEN Swept(dict[word]) ELSE dict[word]]

RECURSIVE Power(_, _)
Power(b, e) == IF e = 0 THEN 1 ELSE b * Power(b, e - 1)

RECURSIVE SelfPowerProduct(_, _, _)
SelfPowerProduct(inner, remaining, seqs) ==
    IF seqs = {} THEN 1
    ELSE LET seq == CHOOSE s \in seqs : TRUE
             k == Cardinality(inner[seq] \cap remaining)
         IN  Power(k, k) * SelfPowerProduct(inner, remaining, seqs \ {seq})

\* entropy_sum of a word is  log2(n) - log2(P) / n  with n = len(remaining_words)
\* and P the product of k^k over the sequences with k = len(matches) > 0
\* (a sequence with probability 0 adds 0).  n is the same for every word of one
\* call, so the entropies compare as the values of P compare, reversed.
\* For n up to 10 the floating-point sums differ by more than 0.004 whenever
\* the values of P differ, in every order of summation; words of equal P may
\* compare either way, which best_guesses leaves open.
entropy_weight(dict, remaining, word) ==
    SelfPowerProduct(dict[word].filled, remaining,
                     {seq \in DOMAIN dict[word].filled :
                         dict[word].filled[seq] \cap remaining # {}})

\* compute_entropies looping over all the words of the dictionary instead of
\* the remaining ones
best_guesses_of_all_words(dict, remaining) ==
    LET weight == [word \in DOMAIN dict |-> entropy_weight(dict, remaining, word)]
    IN  {word \in DOMAIN dict : \A other \in DOMAIN dict : weight[word] <= weight[other]}

\* max(entropies, key = entropies.get): a word of highest entropy; which one of
\* several depends on the iteration order of the set
best_guesses(dict, remaining) ==
    LET weight == [word \in remaining |-> entropy_weight(dict, remaining, word)]
    IN  {word \in remaining : \A other \in remaining : weight[word] <= weight[other]}

\* update_remaining_words, for a guess that is a key of the dictionary
update_remaining_words_result(remaining, dict, g, seq) ==
    remaining \cap Lookup(dict[g], seq)

update_remaining_words_dictionary(dict, g, seq) ==
    [dict EXCEPT ![g] = Touched(dict[g], seq)]

\* the words guess() may return
guess_values ==
    IF first_guess THEN {opening_guess}
    ELSE best_guesses(sequence_dictionary, remaining_words)

\* guess() returns word
guess_returns(word) ==
    /\ IF first_guess
       THEN /\ first_guess' = FALSE
            /\ UNCHANGED sequence_dictionary
       ELSE /\ sequence_dictionary' =
                   compute_entropies_dictionary(sequence_dictionary, remaining_words)
            /\ UNCHANGED first_guess
    /\ emitted' = emitted \cup {word}
    /\ UNCHANGED <<all_words, remaining_words>>

\* guess() raises ValueError: max() of an empty dict
guess_raises ==
    /\ ~first_guess
    /\ remaining_words = {}

\* update_remaining_words(g, seq) returns
update_remaining_words_returns(g, seq) ==
    /\ g \in DOMAIN sequence_dictionary
    /\ remaining_words' =
           update_remaining_words_result(remaining_words, sequence_dictionary, g, seq)
    /\ sequence_dictionary' = update_remaining_words_dictionary(sequence_dictionary, g, seq)
    /\ UNCHANGED <<all_words, first_guess>>

\* update_remaining_words(g, seq) raises KeyError: g is not a word of the dictionary
update_remaining_words_raises(g) == g \notin DOMAIN sequence_dictionary

-----------------------------------------------------------------------------
(* Inputs *)

\* the answers file: a prefix of the pool, with or without the opening guess
Universes(size) ==
    {Prefix(k) \ drop : k \in 1..size, drop \in {{}, {opening_guess}}} \ {{}}

\* feedback a caller may pass to update_remaining_words: every sequence two
\* pool words produce, and one that no pair of words produces
FeedbackInputs ==
    {compute_sequence(w1, w2) : w1 \in Prefix(BotPoolSize), w2 \in Prefix(BotPoolSize)}
        \cup {[idx \in Positions |-> 1]}

NoEngine ==
    /\ wordle_bot = "bot"
    /\ allowed_word_list = {}
    /\ correct_word = NoWord
    /\ num_guesses = 0
    /\ game_over = FALSE
    /\ board = <<>>

NewBot(words) ==
    /\ all_words = words
    /\ remaining_words = words
    /\ sequence_dictionary = generate_sequence_dictionary(words)
    /\ first_guess = TRUE

-----------------------------------------------------------------------------
(* SpecBot: one wordle_bot, its methods called in any order *)

InitBot ==
    /\ \E words \in Universes(BotPoolSize) : NewBot(words)
    /\ NoEngine
    /\ guess = NoWord
    /\ result = <<>>
    /\ sequence = <<>>
    /\ i = 0
    /\ emitted = {}
    /\ exception = ""
    /\ pc = "bot"

CallReset ==
    /\ pc = "bot"
    /\ remaining_words' = all_words
    /\ first_guess' = TRUE
    /\ exception' = ""
    /\ UNCHANGED <<all_words, sequence_dictionary, engineVars, guess, result,
                   sequence, i, emitted, pc>>

CallGuess ==
    /\ pc = "bot"
    /\ \/ /\ \E word \in guess_values : guess_returns(word)
          /\ exception' = ""
       \/ /\ guess_raises
          /\ exception' = "ValueError"
          /\ UNCHANGED <<botVars, emitted>>
    /\ UNCHANGED <<engineVars, guess, result, sequence, i, pc>>

CallComputeEntropies ==
    /\ pc = "bot"
    /\ sequence_dictionary' =
           compute_entropies_dictionary(sequence_dictionary, remaining_words)
    /\ exception' = ""
    /\ UNCHANGED <<all_words, remaining_words, first_guess, engineVars, guess,
                   result, sequence, i, emitted, pc>>

CallUpdateRemainingWords ==
    /\ pc = "bot"
    /\ \E g \in Prefix(BotPoolSize), seq \in FeedbackInputs :
          \/ /\ update_remaining_words_returns(g, seq)
             /\ exception' = ""
          \/ /\ update_remaining_words_raises(g)
             /\ exception' = "KeyError"
             /\ UNCHANGED botVars
    /\ UNCHANGED <<engineVars, guess, result, sequence, i, emitted, pc>>

NextBot == CallReset \/ CallGuess \/ CallComputeEntropies \/ CallUpdateRemainingWords

SpecBot == InitBot /\ [][NextBot]_vars

\* C1: for every guess word of the universe, the buckets of the sequence
\* dictionary partition the universe: they are pairwise disjoint and every
\* universe word lies in one of them; no sequence of calls changes that.
C1_BucketsPartitionUniverse ==
    /\ DOMAIN sequence_dictionary = all_words
    /\ \A g \in all_words :
          LET inner == sequence_dictionary[g] IN
          /\ \A seq \in Keys(inner) : Lookup(inner, seq) \subseteq all_words
          /\ \A word \in all_words :
                Cardinality({seq \in Keys(inner) : word \in Lookup(inner, seq)}) = 1

\* a narrowed bot whose dictionary has been read by compute_entropies and by
\* update_remaining_words with a sequence no word produces
C1_Witness ==
    /\ Cardinality(all_words) >= 3
    /\ remaining_words = {}
    /\ \E g \in all_words :
          /\ Keys(sequence_dictionary[g]) = Patterns
    /\ \E g \in all_words :
          /\ Keys(sequence_dictionary[g]) # Patterns
          /\ [idx \in Positions |-> 1] \in Keys(sequence_dictionary[g])

-----------------------------------------------------------------------------
(* SpecSequence: the two feedback algorithms on every pair of words over a  *)
(* small alphabet                                                           *)

NoBot ==
    /\ all_words = {}
    /\ remaining_words = {}
    /\ sequence_dictionary = <<>>
    /\ first_guess = TRUE

InitSequence ==
    /\ NoBot
    /\ wordle_bot = "None"
    /\ allowed_word_list = {}
    /\ correct_word \in LetterWords
    /\ guess \in LetterWords
    /\ num_guesses = 0
    /\ game_over = FALSE
    /\ board = <<>>
    /\ result = <<>>
    /\ sequence = <<>>
    /\ i = 0
    /\ emitted = {}
    /\ exception = ""
    /\ pc = "input"

\* wordle_bot.compute_sequence(guess, correct_word)
CallComputeSequence ==
    /\ pc = "input"
    /\ sequence' = compute_sequence(guess, correct_word)
    /\ pc' = "sequence"
    /\ UNCHANGED <<botVars, engineVars, guess, result, i, emitted, exception>>

\* wordle_engine.update_board(guess)
CallUpdateBoard ==
    /\ pc = "sequence"
    /\ result' = update_board_result(guess, correct_word)
    /\ board' = Append(board, board_row(guess, result'))
    /\ game_over' = update_board_game_over(guess, correct_word, game_over)
    /\ pc' = "board"
    /\ UNCHANGED <<botVars, wordle_bot, allowed_word_list, correct_word,
                   num_guesses, guess, sequence, i, emitted, exception>>

NextSequence == CallComputeSequence \/ CallUpdateBoard

SpecSequence == InitSequence /\ [][NextSequence]_vars

Count(letter, word) == Cardinality({idx \in DOMAIN word : word[idx] = letter})

Min(a, b) == IF a <= b THEN a ELSE b

Marked(letter) ==
    Cardinality({idx \in Positions : guess[idx] = letter /\ sequence[idx] \in {1, 2}})

\* C2: compute_sequence marks a position 2 exactly when guess and answer hold
\* the same letter there, and for every letter the positions of the guess
\* holding it that are marked 1 or 2 number at most min(count in guess, count
\* in answer).
C2_ExactAndDuplicateBound ==
    pc # "input" =>
        /\ \A idx \in Positions : sequence[idx] = 2 <=> guess[idx] = correct_word[idx]
        /\ \A letter \in Letters :
              Marked(letter) <= Min(Count(letter, guess), Count(letter, correct_word))

\* a guess repeating a letter more often than the answer holds it: one copy is
\* green, one yellow, one grey
C2_Witness ==
    /\ pc = "sequence"
    /\ \E letter \in Letters :
          /\ Count(letter, guess) > Count(letter, correct_word)
          /\ Marked(letter) = Count(letter, correct_word)
          /\ \E i1, i2, i3 \in Positions :
                /\ guess[i1] = letter /\ sequence[i1] = 2
                /\ guess[i2] = letter /\ sequence[i2] = 1
                /\ guess[i3] = letter /\ sequence[i3] = 0

\* C9: for 5-letter guess and target the list update_board returns equals,
\* position by position, the sequence compute_sequence returns.
C9_BoardAgreesWithSequence ==
    pc = "board" =>
        /\ Len(result) = Len(sequence)
        /\ \A idx \in Positions : result[idx] = sequence[idx]

\* both algorithms have run on a guess with a repeated letter of which one copy
\* is yellow and a later copy is grey
C9_Witness ==
    /\ pc = "board"
    /\ \E i1, i2 \in Positions :
          /\ i1 < i2
          /\ guess[i1] = guess[i2]
          /\ result[i1] = 1
          /\ result[i2] = 0
          /\ guess[i1] \in Range(correct_word)

-----------------------------------------------------------------------------
(* SpecInteractive: wordle_bot.interactive, the feedback typed by the user  *)

InitInteractive ==
    /\ \E words \in Universes(BotPoolSize) : NewBot(words)
    /\ NoEngine
    /\ guess = NoWord
    /\ result = <<>>
    /\ sequence = <<>>
    /\ i = 0
    /\ emitted = {}
    /\ exception = ""
    /\ pc = "suggest"

\* guess = self.guess(); print the suggestion
Suggest ==
    /\ pc = "suggest"
    /\ \/ /\ \E word \in guess_values : guess_returns(word) /\ guess' = word
          /\ pc' = "read"
          /\ UNCHANGED exception
       \/ /\ guess_raises
          /\ exception' = "ValueError"
          /\ pc' = "raised"
          /\ UNCHANGED <<botVars, guess, emitted>>
    /\ UNCHANGED <<engineVars, result, sequence, i>>

\* result_str = input(); update_remaining_words(guess, tuple(result)); next round
ReadFeedback ==
    /\ pc = "read"
    /\ \E seq \in FeedbackInputs :
          /\ result' = seq
          /\ \/ /\ update_remaining_words_returns(guess, seq)
                /\ i' = i + 1
                /\ pc' = IF i + 1 < interactive_rounds THEN "suggest" ELSE "done"
                /\ UNCHANGED exception
             \/ /\ update_remaining_words_raises(guess)
                /\ exception' = "KeyError"
                /\ pc' = "raised"
                /\ UNCHANGED <<botVars, i>>
    /\ UNCHANGED <<engineVars, guess, sequence, emitted>>

NextInteractive == Suggest \/ ReadFeedback

SpecInteractive == InitInteractive /\ [][NextInteractive]_vars

\* C4: once the feedback read for a guess is all-Exact the session is over: no
\* further guess is emitted and no further feedback is read or applied.
C4_SolvedIsTerminal ==
    [][result = AllExact =>
          /\ pc' # "read"
          /\ UNCHANGED <<guess, result, remaining_words, emitted>>]_vars

\* C5: a narrowing that leaves no candidate raises an error and aborts the
\* session; the solver never goes on with an empty candidate set.
C5_EmptyNarrowingAborts ==
    remaining_words = {} => pc = "raised"

-----------------------------------------------------------------------------
(* Spec: wordle_engine.simulate, played by the bot or by a person           *)

Targets == {PoolSeq[1], PoolSeq[2], PoolSeq[9]}

\* the allowed-words file
AllowedLists == {Pool \ unlisted : unlisted \in SUBSET {PoolSeq[1], PoolSeq[2]}}

\* what a person may type at "Enter a guess:"
TypedGuesses == Pool

Init ==
    /\ wordle_bot \in {"bot", "None"}
    /\ IF wordle_bot = "bot"
       THEN \E words \in Universes(PoolSize) : NewBot(words)
       ELSE NoBot
    /\ allowed_word_list \in AllowedLists
    /\ correct_word \in Targets
    /\ num_guesses = 0
    /\ game_over = FALSE
    /\ board = <<>>
    /\ guess = NoWord
    /\ result = <<>>
    /\ sequence = <<>>
    /\ i = 0
    /\ emitted = {}
    /\ exception = ""
    /\ pc = "while"

\* validate_guess that accepts every guess
validate_guess_accepts_all(g) == TRUE

validate_guess(g) == g \in allowed_word_list

\* prompt(), entered from position 'from' of simulate
prompt ==
    \/ /\ wordle_bot = "None"
       /\ guess' \in TypedGuesses
       /\ pc' = "validate"
       /\ UNCHANGED <<botVars, emitted, exception>>
    \/ /\ wordle_bot = "bot"
       /\ \E word \in guess_values : guess_returns(word) /\ guess' = word
       /\ pc' = "validate"
       /\ UNCHANGED exception
    \/ /\ wordle_bot = "bot"
       /\ guess_raises
       /\ exception' = "ValueError"
       /\ pc' = "raised"
       /\ UNCHANGED <<botVars, guess, emitted>>

\* while self.num_guesses < 7: guess = self.prompt()
Prompt ==
    /\ pc = "while"
    /\ num_guesses < guess_budget
    /\ prompt
    /\ UNCHANGED <<engineVars, result, sequence, i>>

\* the loop ends: "Game over!", return self.num_guesses
BudgetExhausted ==
    /\ pc = "while"
    /\ ~(num_guesses < guess_budget)
    /\ pc' = "lost"
    /\ UNCHANGED <<botVars, engineVars, guess, result, sequence, i, emitted, exception>>

\* while not self.validate_guess(guess): guess = self.prompt()
Reprompt ==
    /\ pc = "validate"
    /\ ~validate_guess(guess)
    /\ prompt
    /\ UNCHANGED <<engineVars, result, sequence, i>>

\* an accepted guess: count it, update the board, narrow the bot's candidates,
\* return if the game is over
Turn ==
    /\ pc = "validate"
    /\ validate_guess(guess)
    /\ num_guesses' = num_guesses + 1
    /\ result' = update_board_result(guess, correct_word)
    /\ board' = Append(board, board_row(guess, result'))
    /\ game_over' = update_board_game_over(guess, correct_word, game_over)
    /\ \/ /\ wordle_bot = "None"
          /\ exception' = "AttributeError"
          /\ pc' = "raised"
          /\ UNCHANGED botVars
       \/ /\ wordle_bot = "bot"
          /\ update_remaining_words_raises(guess)
          /\ exception' = "KeyError"
          /\ pc' = "raised"
          /\ UNCHANGED botVars
       \/ /\ wordle_bot = "bot"
          /\ update_remaining_words_returns(guess, result')
          /\ pc' = IF game_over' THEN "won" ELSE "while"
          /\ UNCHANGED exception
    /\ UNCHANGED <<wordle_bot, allowed_word_list, correct_word, guess, sequence,
                   i, emitted>>

Next == Prompt \/ BudgetExhausted \/ Reprompt \/ Turn

Spec == Init /\ [][Next]_vars

\* simulate is a sequential loop: an enabled step is eventually taken
FairSpec == Spec /\ WF_vars(Next)

-----------------------------------------------------------------------------
(* Properties of simulate *)

SelfPlay == wordle_bot = "bot"

\* the step is one in which prompt() returned a guess
Emits == pc' = "validate"

\* the step is an accepted guess that did not win
NonWinningTurn == num_guesses' = num_guesses + 1 /\ ~game_over'

\* C3: in self-play with the hidden answer a word of the universe, the
\* candidate set contains the hidden answer after every turn.
C3_AnswerStaysCandidate ==
    (SelfPlay /\ correct_word \in all_words) => correct_word \in remaining_words

\* two turns have narrowed the candidates and the answer is still one of several
C3_Witness ==
    /\ SelfPlay
    /\ correct_word \in all_words
    /\ num_guesses >= 2
    /\ pc = "while"
    /\ correct_word \in remaining_words
    /\ Cardinality(remaining_words) >= 2
    /\ Cardinality(remaining_words) + 2 <= Cardinality(all_words)

\* C6: a guess outside the allowed vocabulary is rejected: num_guesses, the
\* board and game_over stay as they are and the caller is asked again.
C6_InvalidGuessRejected ==
    [][(pc = "validate" /\ guess \notin allowed_word_list) =>
          /\ num_guesses' = num_guesses
          /\ board' = board
          /\ game_over' = game_over
          /\ pc' = "validate"]_vars

\* the opening guess was rejected and the bot has been asked again: a second
\* guess is pending and nothing has been counted or drawn
C6_Witness ==
    /\ SelfPlay
    /\ opening_guess \notin allowed_word_list
    /\ opening_guess \in emitted
    /\ pc = "validate"
    /\ guess # opening_guess
    /\ num_guesses = 0
    /\ board = <<>>
    /\ ~game_over

\* the bot, if one plays, was built from a word file that holds the opening
\* guess and the hidden word
BotKnowsWords ==
    SelfPlay => (opening_guess \in all_words /\ correct_word \in all_words)

\* C7: simulate is in the Won state (game_over = True, returned) exactly when
\* the feedback of the last accepted guess is all-Exact, and it returns the
\* number of accepted guesses.  (Stated for the games in which the bot, if any,
\* knows the words; the claim makes no such restriction.)
C7_WonExactlyOnAllExact ==
    BotKnowsWords =>
        /\ game_over <=> pc = "won"
        /\ num_guesses >= 1 => (game_over <=> result = AllExact)
        /\ pc = "won" => num_guesses = Len(board)

\* the same statement for the games the bot plays: it holds there
C7_WonExactlyOnAllExactInSelfPlay ==
    (SelfPlay /\ BotKnowsWords) =>
        /\ game_over <=> pc = "won"
        /\ num_guesses >= 1 => (game_over <=> result = AllExact)
        /\ pc = "won" => num_guesses = Len(board)

\* C8: a self-play game with every universe word allowed always terminates:
\* num_guesses never exceeds the budget and simulate eventually returns, won
\* or lost.
C8_SelfPlayTerminates ==
    (SelfPlay /\ correct_word \in all_words /\ all_words \subseteq allowed_word_list) =>
        ([](num_guesses <= guess_budget) /\ <>(pc \in {"won", "lost"}))

C10_Narrowing ==
    /\ Emits => (guess' \in remaining_words' /\ guess' \notin emitted)
    /\ NonWinningTurn =>
          /\ remaining_words' \subseteq remaining_words
          /\ remaining_words' # remaining_words
          /\ guess \notin remaining_words'

\* C10 as stated: in self-play with the opening guess in the universe, every
\* guess the bot emits is a current candidate, every non-winning turn removes
\* the guessed word from the candidates, and no word is emitted twice.
C10_NoRepeatedGuess ==
    [][(SelfPlay /\ opening_guess \in all_words) => C10_Narrowing]_vars

\* C10 amended: the same, in games whose allowed vocabulary contains every
\* word of the universe, so that no guess of the bot is rejected.
C10_NoRepeatedGuessWhenAllowed ==
    [][(SelfPlay /\ opening_guess \in all_words
            /\ all_words \subseteq allowed_word_list) => C10_Narrowing]_vars

\* the fourth guess of such a game is pending: three different words were
\* played and removed, and the new guess is a candidate
C10_Witness ==
    /\ SelfPlay
    /\ opening_guess \in all_words
    /\ all_words \subseteq allowed_word_list
    /\ pc = "validate"
    /\ num_guesses = 3
    /\ Cardinality(emitted) = 4
    /\ guess \in remaining_words

=============================================================================
